---- MODULE Spec2Model ----
(***************************************************************************)
(* Request validation middleware of carbone-express: the validators of     *)
(* the request body (data, options, formatters, template), the size check  *)
(* with its temporary file, the two composite validators, the middleware   *)
(* adapter and the initialisation of the process-wide size limit.          *)
(*                                                                         *)
(* JavaScript values are records tagged by "t".  A string is the sequence  *)
(* of its characters, so that trimming, lower-casing, decoding and parsing *)
(* are computed and not assumed.                                           *)
(***************************************************************************)
EXTENDS Integers, Sequences, FiniteSets, TLC

\* ------------------------------------------------------------ bounds

\* Requests in flight at once (SpecConc).
MaxReqs == 2
\* Calls of init over a run.
MaxInits == 1
\* Longest template content, in characters.
MaxContentLen == 4

\* ------------------------------------------------------- JS values

Undefined == [t |-> "undefined"]
Null == [t |-> "null"]
NaN == [t |-> "NaN"]
Num(n) == [t |-> "number", n |-> n]
Str(s) == [t |-> "string", s |-> s]
Arr(n) == [t |-> "array", len |-> n]
PlainObject == [t |-> "object"]

\* obj.f: a missing property reads as undefined.
Get(v, f) == IF f \in DOMAIN v THEN v[f] ELSE Undefined

\* if (value): undefined, null, NaN, 0 and "" are falsy.
Truthy(v) ==
  CASE v.t = "undefined" -> FALSE
    [] v.t = "null" -> FALSE
    [] v.t = "NaN" -> FALSE
    [] v.t = "number" -> v.n # 0
    [] v.t = "string" -> v.s # <<>>
    [] OTHER -> TRUE

UpperToLower ==
  [A |-> "a", B |-> "b", C |-> "c", D |-> "d", E |-> "e", F |-> "f", G |-> "g",
   H |-> "h", I |-> "i", J |-> "j", K |-> "k", L |-> "l", M |-> "m", N |-> "n",
   O |-> "o", P |-> "p", Q |-> "q", R |-> "r", S |-> "s", T |-> "t", U |-> "u",
   V |-> "v", W |-> "w", X |-> "x", Y |-> "y", Z |-> "z"]

\* String.prototype.toLowerCase
toLowerCase(s) ==
  [i \in 1..Len(s) |-> IF s[i] \in DOMAIN UpperToLower THEN UpperToLower[s[i]] ELSE s[i]]

\* validator.isEmpty(x, { ignore_whitespace: true })
isEmpty(s) == \A i \in 1..Len(s) : s[i] = " "

\* validator.isIn(value, list)
isIn(s, list) == s \in list

\* ----------------------------------------------- external collaborators

docx == <<"d", "o", "c", "x">>
xlsx == <<"x", "l", "s", "x">>
html == <<"h", "t", "m", "l">>
pdf == <<"p", "d", "f">>
odt == <<"o", "d", "t">>
csv == <<"c", "s", "v">>

\* The supported-type table of the rendering engine: input type -> outputs.
fileTypes ==
  (docx :> {docx, odt, pdf}) @@ (xlsx :> {xlsx, csv, pdf}) @@ (html :> {html, odt})

Digits ==
  [c \in {"0", "1", "2", "3", "4", "5", "6", "7", "8", "9"} |->
     CASE c = "0" -> 0 [] c = "1" -> 1 [] c = "2" -> 2 [] c = "3" -> 3
       [] c = "4" -> 4 [] c = "5" -> 5 [] c = "6" -> 6 [] c = "7" -> 7
       [] c = "8" -> 8 [] c = "9" -> 9]

\* The length of the longest prefix of s made of digits.
RECURSIVE digitPrefix(_)
digitPrefix(s) ==
  IF s = <<>> \/ s[1] \notin DOMAIN Digits THEN 0 ELSE 1 + digitPrefix(Tail(s))

RECURSIVE digitsValue(_, _)
digitsValue(s, acc) ==
  IF s = <<>> THEN acc ELSE digitsValue(Tail(s), 10 * acc + Digits[s[1]])

RECURSIVE dropSpaces(_)
dropSpaces(s) == IF s # <<>> /\ s[1] = " " THEN dropSpaces(Tail(s)) ELSE s

unitMap == (<<"k", "b">> :> 1024) @@ (<<"m", "b">> :> 1048576)

\* bytes.parse(val): a number is returned as it is, a non-string gives null,
\* "<digits> *<unit>" gives digits * unit, any other string goes through
\* parseInt (leading digits, in bytes), and null when that is NaN.  It never
\* throws.
bytesParse(v) ==
  CASE v.t = "number" -> v
    [] v.t # "string" -> Null
    [] OTHER ->
       LET k == digitPrefix(v.s)
           n == digitsValue(SubSeq(v.s, 1, k), 0)
           unit == toLowerCase(dropSpaces(SubSeq(v.s, k + 1, Len(v.s))))
       IN IF k = 0 THEN Null
          ELSE IF unit \in DOMAIN unitMap THEN Num(n * unitMap[unit])
          ELSE Num(n)

\* telejson.parse(s, { allowFunction: true }) returns for an object or array
\* literal and throws for anything else.
telejsonParses(s) ==
  /\ Len(s) >= 2
  /\ <<s[1], s[Len(s)]>> \in {<<"{", "}">>, <<"[", "]">>}

HexChars ==
  {"0", "1", "2", "3", "4", "5", "6", "7", "8", "9", "A", "B", "C", "D", "E", "F",
   "a", "b", "c", "d", "e", "f"}

RECURSIVE hexPrefix(_)
hexPrefix(s) == IF s = <<>> \/ s[1] \notin HexChars THEN 0 ELSE 1 + hexPrefix(Tail(s))

\* Buffer.from(content, encoding).length for content of ASCII letters and
\* digits: base64 packs 4 characters into 3 bytes, hex 2 characters into 1
\* byte up to the first character that is no hex digit, binary and the
\* default (utf8, for an absent or empty encoding) 1 character into 1 byte.
bufferLength(c, enc) ==
  CASE enc = Str(<<"b", "a", "s", "e", "6", "4">>) -> (Len(c.s) * 3) \div 4
    [] enc = Str(<<"h", "e", "x">>) -> hexPrefix(c.s) \div 2
    [] OTHER -> Len(c.s)

\* ------------------------------------------------------ validatorUtils

isString(x) == x.t = "string"

isNonEmptyString(x) == isString(x) /\ ~isEmpty(x.s)

isObject(x) == x.t = "object"

\* ------------------------------------------------------- models.carbone

data(value) ==
  /\ Truthy(value)
  /\ \/ (value.t = "array" /\ value.len # 0)
     \/ isObject(value)

options(value) == IF Truthy(value) THEN isObject(value) ELSE TRUE

formatters(value) == IF Truthy(value) THEN isNonEmptyString(value) ELSE TRUE

convertTo(value) ==
  IF Truthy(value)
  THEN /\ isNonEmptyString(value)
       /\ \/ toLowerCase(value.s) = pdf
          \/ toLowerCase(value.s) \in DOMAIN fileTypes
  ELSE TRUE

reportName(value) == IF Truthy(value) THEN isNonEmptyString(value) ELSE TRUE

\* ------------------------------------------------------ models.template

template(value) == Truthy(value) /\ value # Null /\ isObject(value)

\* Variant: the mandatory check asks only whether the three fields are there.
mandatoryPresentOnly(value) ==
  /\ Get(value, "content") # Undefined
  /\ Get(value, "encodingType") # Undefined
  /\ Get(value, "fileType") # Undefined

mandatory(value) ==
  /\ isNonEmptyString(Get(value, "content"))
  /\ isNonEmptyString(Get(value, "encodingType"))
  /\ isNonEmptyString(Get(value, "fileType"))

content(value) == isNonEmptyString(value)

Encodings == {<<"b", "a", "s", "e", "6", "4">>, <<"b", "i", "n", "a", "r", "y">>, <<"h", "e", "x">>}

encodingType(value) ==
  IF Truthy(value)
  THEN isNonEmptyString(value) /\ isIn(value.s, Encodings)
  ELSE TRUE

fileType(value) ==
  /\ isNonEmptyString(value)
  /\ toLowerCase(value.s) \in DOMAIN fileTypes

fileConversion(contentFileType, outputFileType) ==
  IF contentFileType = Str(<<>>) THEN FALSE
  ELSE IF Truthy(contentFileType) /\ Truthy(outputFileType)
  THEN /\ toLowerCase(contentFileType.s) \in DOMAIN fileTypes
       /\ toLowerCase(outputFileType.s) \in fileTypes[toLowerCase(contentFileType.s)]
  ELSE TRUE

\* ------------------------------------------------------ modelValidation

InvalidData == "Invalid value 'data'."
InvalidOptions == "Invalid value 'options'."
InvalidConvertTo == "Invalid value 'options.convertTo'."
InvalidReportName == "Invalid value 'options.reportName'."
InvalidFormatters == "Invalid value 'formatters'."
UnparsedFormatters == "Formatters could not be parsed into formatters object."
InvalidTemplate == "Invalid value 'template'."
MandatoryMissing == "Invalid template. Mandatory fields missing. Require content, encodingType and fileType."
InvalidFileType == "Invalid value 'template.fileType'."
InvalidContent == "Invalid value 'template.content'."
InvalidEncodingType == "Invalid value 'template.encodingType'."
TooLarge == "Template exceeds size limit of ${bytes.format(limit, 'MB')}."
UnsupportedConversion == "Unsupported file type conversion."

Err(v, m) == [value |-> v, message |-> m]

\* modelValidation.carbone(obj): the base check; it has no suspension point.
carbone(obj) ==
  LET eData == IF ~data(obj.data) THEN <<Err(obj.data, InvalidData)>> ELSE <<>>
      eOptions ==
        IF ~options(obj.options) THEN <<Err(obj.options, InvalidOptions)>>
        ELSE IF Truthy(obj.options)
        THEN (IF ~convertTo(Get(obj.options, "convertTo"))
              THEN <<Err(Get(obj.options, "convertTo"), InvalidConvertTo)>> ELSE <<>>)
             \o
             (IF ~reportName(Get(obj.options, "reportName"))
              THEN <<Err(Get(obj.options, "reportName"), InvalidReportName)>> ELSE <<>>)
        ELSE <<>>
      eFormatters ==
        IF ~formatters(obj.formatters) THEN <<Err(obj.formatters, InvalidFormatters)>>
        ELSE IF Truthy(obj.formatters) /\ ~telejsonParses(obj.formatters.s)
        THEN <<Err(obj.formatters, UnparsedFormatters)>>
        ELSE <<>>
  IN eData \o eOptions \o eFormatters

\* Variant: the third field check calls the fileType validator on the
\* encoding.
fieldErrorsWrongValidator(tpl) ==
  (IF ~fileType(Get(tpl, "fileType"))
   THEN <<Err(Get(tpl, "fileType"), InvalidFileType)>> ELSE <<>>)
  \o
  (IF ~content(Get(tpl, "content"))
   THEN <<Err(Get(tpl, "content"), InvalidContent)>> ELSE <<>>)
  \o
  (IF ~fileType(Get(tpl, "encodingType"))
   THEN <<Err(Get(tpl, "encodingType"), InvalidEncodingType)>> ELSE <<>>)

\* The three field checks of modelValidation.template, in the order of the
\* code; validateSize stays true exactly when none of them fails.
fieldErrors(tpl) ==
  (IF ~fileType(Get(tpl, "fileType"))
   THEN <<Err(Get(tpl, "fileType"), InvalidFileType)>> ELSE <<>>)
  \o
  (IF ~content(Get(tpl, "content"))
   THEN <<Err(Get(tpl, "content"), InvalidContent)>> ELSE <<>>)
  \o
  (IF ~encodingType(Get(tpl, "encodingType"))
   THEN <<Err(Get(tpl, "encodingType"), InvalidEncodingType)>> ELSE <<>>)

\* Variant: the output type is read without the "pdf" default.
outputFileTypeNoDefault(obj) ==
  IF Truthy(obj.options) THEN Get(obj.options, "convertTo") ELSE Undefined

\* obj.options && obj.options.convertTo ? obj.options.convertTo : "pdf"
outputFileType(obj) ==
  IF Truthy(obj.options) /\ Truthy(Get(obj.options, "convertTo"))
  THEN Get(obj.options, "convertTo")
  ELSE Str(pdf)

\* The conversion check that ends the mandatory-fields-present branch.
conversionErrors(obj) ==
  IF ~fileConversion(Get(obj.template, "fileType"), outputFileType(obj))
  THEN <<[values |-> <<Get(obj.template, "fileType"), outputFileType(obj)>>,
          message |-> UnsupportedConversion]>>
  ELSE <<>>

\* The size-limit violation; its message is built from the limit argument.
sizeError(limit) ==
  [value |-> Str(<<"Template document too large">>), message |-> TooLarge, limit |-> limit]

\* Variant: the template-level checks run whatever the base check found.
templateChecksUngated(obj, errors) ==
  IF ~template(obj.template)
  THEN [errors |-> errors \o <<Err(obj.template, InvalidTemplate)>>, validateSize |-> FALSE]
  ELSE IF ~mandatory(obj.template)
  THEN [errors |-> errors \o <<[message |-> MandatoryMissing]>>, validateSize |-> FALSE]
  ELSE IF errors # <<>> \/ fieldErrors(obj.template) # <<>>
  THEN [errors |-> errors \o fieldErrors(obj.template) \o conversionErrors(obj),
        validateSize |-> FALSE]
  ELSE [errors |-> <<>>, validateSize |-> TRUE]

\* modelValidation.template from the return of the base check up to the
\* size check: the errors so far, whether the size check is to be called
\* (validateSize) and whether the function has reached its return.
templateChecks(obj, errors) ==
  IF errors # <<>> THEN [errors |-> errors, validateSize |-> FALSE]
  ELSE IF ~template(obj.template)
  THEN [errors |-> <<Err(obj.template, InvalidTemplate)>>, validateSize |-> FALSE]
  ELSE IF ~mandatory(obj.template)
  THEN [errors |-> <<[message |-> MandatoryMissing]>>, validateSize |-> FALSE]
  ELSE IF fieldErrors(obj.template) # <<>>
  THEN [errors |-> fieldErrors(obj.template) \o conversionErrors(obj), validateSize |-> FALSE]
  ELSE [errors |-> <<>>, validateSize |-> TRUE]

\* modelValidation.template after the size check has answered.
templateAfterSize(obj, errors, validSize, limit) ==
  errors \o (IF ~validSize THEN <<sizeError(limit)>> ELSE <<>>) \o conversionErrors(obj)

\* --------------------------------------------------------------- state

VARIABLES
  maxFileSize,  \* the process-wide size limit (let maxFileSize)
  env,          \* process.env.FILE_UPLOADS_MAX_FILE_SIZE
  inits,        \* calls of init so far
  initThrew,    \* an init call has thrown
  req,          \* per request: its position and its locals
  tmpFiles,     \* the temp files that exist
  log           \* what console.log has written

vars == <<maxFileSize, env, inits, initThrew, req, tmpFiles, log>>

Reqs == 1..MaxReqs

NoBody == [data |-> Undefined, options |-> Undefined, formatters |-> Undefined,
           template |-> Undefined]

\* A request that has not arrived.  `started` remembers the value of
\* maxFileSize when the handler was entered; `args` are the arguments of the
\* size check once it was called; `creates` counts the calls of tmp.fileSync.
Idle ==
  [pc |-> "idle", kind |-> "none", body |-> NoBody, limit |-> Undefined,
   started |-> Undefined, errors |-> <<>>, args |-> <<>>, tmpFile |-> Undefined,
   io |-> "none", validSize |-> FALSE, creates |-> 0, threw |-> FALSE,
   response |-> <<>>, nextCalls |-> 0]

\* let maxFileSize = bytes.parse("25MB")
Default == Str(<<"2", "5", "M", "B">>)

Init ==
  /\ maxFileSize = bytesParse(Default)
  /\ env \in {Undefined, Str(<<"1">>)}
  /\ inits = 0
  /\ initThrew = FALSE
  /\ req = [r \in Reqs |-> Idle]
  /\ tmpFiles = {}
  /\ log = {}

\* ------------------------------------------------------------ init

\* bytes.parse has no throw statement: what it cannot parse gives null.
bytesParseThrows(v) == FALSE

\* (options && (options.maxFileSize || options["max-file-size"])) ||
\*   process.env.FILE_UPLOADS_MAX_FILE_SIZE || "25MB"
resolveMaxFileSize(opts) ==
  IF Truthy(opts) /\ Truthy(Get(opts, "maxFileSize")) THEN Get(opts, "maxFileSize")
  ELSE IF Truthy(opts) /\ Truthy(Get(opts, "max-file-size")) THEN Get(opts, "max-file-size")
  ELSE IF Truthy(env) THEN env
  ELSE Default

init(opts) ==
  /\ inits < MaxInits
  /\ inits' = inits + 1
  /\ IF bytesParseThrows(resolveMaxFileSize(opts))
     THEN maxFileSize' = resolveMaxFileSize(opts) /\ initThrew' = TRUE
     ELSE maxFileSize' = bytesParse(resolveMaxFileSize(opts)) /\ UNCHANGED initThrew
  /\ UNCHANGED <<env, req, tmpFiles, log>>

\* ------------------------------------------------------ the size check

\* The guards of models.templateContent.size before any I/O.
sizePreconditions(c, enc, limit) ==
  /\ content(c)
  /\ encodingType(enc)
  /\ LET attachmentLimit == bytesParse(limit)
     IN ~(~Truthy(attachmentLimit) \/ attachmentLimit.t # "number" \/ attachmentLimit.n < 1)

\* console.log(`Error validating file size. ${e.message}`)
logLine(r, fault) == [r |-> r, text |-> "Error validating file size.", e |-> fault]

\* size(content, encoding, limit) up to its first suspension, for the request
\* r whose record is q at the call: a failed guard or a failed tmp.fileSync
\* answers false, else the temp file exists and the call waits for
\* fs.promises.writeFile.  `ret` is where the caller resumes.
sizeStart(r, q, c, enc, limit, ret) ==
  IF ~sizePreconditions(c, enc, limit)
  THEN /\ req' = [req EXCEPT ![r] = [q EXCEPT !.args = <<c, enc, limit>>,
                                             !.validSize = FALSE, !.pc = ret]]
       /\ UNCHANGED <<tmpFiles, log>>
  ELSE \E created \in BOOLEAN :
         IF created
         THEN LET f == [t |-> "object", owner |-> r, n |-> q.creates + 1]
              IN /\ req' = [req EXCEPT ![r] = [q EXCEPT !.args = <<c, enc, limit>>,
                                                        !.creates = @ + 1,
                                                        !.tmpFile = f,
                                                        !.pc = "awaitWrite"]]
                 /\ tmpFiles' = tmpFiles \cup {f}
                 /\ UNCHANGED log
         ELSE /\ req' = [req EXCEPT ![r] = [q EXCEPT !.args = <<c, enc, limit>>,
                                                    !.creates = @ + 1,
                                                    !.io = "create",
                                                    !.validSize = FALSE, !.pc = ret]]
              /\ log' = log \cup {logLine(r, "create")}
              /\ UNCHANGED tmpFiles

\* Variant: the finally tests !tmpFile.
removeTmpInverted(f, files) == IF Truthy(f) THEN files ELSE files \ {f}

\* finally { if (tmpFile) tmpFile.removeCallback(); }
removeTmp(f, files) == IF Truthy(f) THEN files \ {f} ELSE files

\* Variant: no catch; a failed write or stat leaves size, and with it
\* modelValidation.template and the handler, by the exception.
sizeFinishUncaught(r, written, statted) ==
  /\ req[r].pc = "awaitWrite"
  /\ LET q == req[r]
         ret == IF q.kind = "size" THEN "done" ELSE "awaitSize"
         fault == IF ~written THEN "write" ELSE IF ~statted THEN "stat" ELSE "none"
         stats == bufferLength(q.args[1], q.args[2])
     IN /\ req' = [req EXCEPT ![r] =
                     [@ EXCEPT !.validSize = (fault = "none" /\ stats <= bytesParse(q.args[3]).n),
                               !.io = fault,
                               !.tmpFile = Undefined,
                               !.threw = (fault # "none"),
                               !.pc = IF fault # "none" THEN "done" ELSE ret]]
        /\ tmpFiles' = removeTmp(q.tmpFile, tmpFiles)
        /\ UNCHANGED log
  /\ UNCHANGED <<maxFileSize, env, inits, initThrew>>

\* size from the end of the write to its return: statSync and the
\* comparison, or the catch, and the finally in either case.
sizeFinish(r, written, statted) ==
  /\ req[r].pc = "awaitWrite"
  /\ LET q == req[r]
         ret == IF q.kind = "size" THEN "done" ELSE "awaitSize"
         fault == IF ~written THEN "write" ELSE IF ~statted THEN "stat" ELSE "none"
         stats == bufferLength(q.args[1], q.args[2])
     IN /\ req' = [req EXCEPT ![r] =
                     [@ EXCEPT !.validSize = (fault = "none" /\ stats <= bytesParse(q.args[3]).n),
                               !.io = fault,
                               !.tmpFile = Undefined,
                               !.pc = ret]]
        /\ tmpFiles' = removeTmp(q.tmpFile, tmpFiles)
        /\ log' = IF fault = "none" THEN log ELSE log \cup {logLine(r, fault)}
  /\ UNCHANGED <<maxFileSize, env, inits, initThrew>>

\* A direct call of models.templateContent.size.
size(r, c, enc, limit) ==
  /\ req[r].pc = "idle"
  /\ sizeStart(r, [req[r] EXCEPT !.kind = "size"], c, enc, limit, "done")
  /\ UNCHANGED <<maxFileSize, env, inits, initThrew>>

\* ------------------------------------------------------- the handlers

\* validateCarbone(req, res, next) up to its await: the base check runs to
\* its return without suspending.
validateCarbone(r, b) ==
  /\ req[r].pc = "idle"
  /\ req' = [req EXCEPT ![r] = [@ EXCEPT !.kind = "carbone", !.body = b,
                                         !.started = maxFileSize,
                                         !.errors = carbone(b),
                                         !.pc = "awaitErrors"]]
  /\ UNCHANGED <<maxFileSize, env, inits, initThrew, tmpFiles, log>>

\* validateTemplate(req, res, next) up to the first await of
\* modelValidation.template: maxFileSize is read and passed as `limit`, and
\* the base check runs to its return.
validateTemplate(r, b) ==
  /\ req[r].pc = "idle"
  /\ req' = [req EXCEPT ![r] = [@ EXCEPT !.kind = "template", !.body = b,
                                         !.limit = maxFileSize,
                                         !.started = maxFileSize,
                                         !.errors = carbone(b),
                                         !.pc = "awaitCarbone"]]
  /\ UNCHANGED <<maxFileSize, env, inits, initThrew, tmpFiles, log>>

\* Variant: modelValidation.template reads maxFileSize where it uses the limit.
limitArgGlobal(r) == maxFileSize

\* The limit that modelValidation.template hands to the size check and
\* prints in the size-limit violation: its parameter `limit`.
limitArg(r) == req[r].limit

\* modelValidation.template from the base check's answer to the next
\* suspension: the return, or the size check's write.
templateResume(r) ==
  /\ req[r].pc = "awaitCarbone"
  /\ LET q == req[r]
         tc == templateChecks(q.body, q.errors)
     IN IF tc.validateSize
        THEN sizeStart(r, q, Get(q.body.template, "content"),
                       Get(q.body.template, "encodingType"), limitArg(r), "awaitSize")
        ELSE /\ req' = [req EXCEPT ![r] = [@ EXCEPT !.errors = tc.errors,
                                                    !.pc = "awaitErrors"]]
             /\ UNCHANGED <<tmpFiles, log>>
  /\ UNCHANGED <<maxFileSize, env, inits, initThrew>>

\* modelValidation.template from the size check's answer to its return.
templateFinish(r) ==
  /\ req[r].pc = "awaitSize"
  /\ LET q == req[r]
     IN req' = [req EXCEPT ![r] =
                  [@ EXCEPT !.errors = templateAfterSize(q.body, q.errors, q.validSize, limitArg(r)),
                            !.pc = "awaitErrors"]]
  /\ UNCHANGED <<maxFileSize, env, inits, initThrew, tmpFiles, log>>

\* new Problem(422, { detail, errors }).send(res)
Problem(errors) == [status |-> 422, detail |-> "Validation failed", errors |-> errors]

\* Variant: the return before the Problem is missing, so next() follows it.
handleValidationErrorsNoReturn(r) ==
  /\ req[r].pc = "awaitErrors"
  /\ IF req[r].errors # <<>>
     THEN req' = [req EXCEPT ![r] = [@ EXCEPT !.response = Append(@, Problem(req[r].errors)),
                                              !.nextCalls = @ + 1,
                                              !.pc = "done"]]
     ELSE req' = [req EXCEPT ![r] = [@ EXCEPT !.nextCalls = @ + 1, !.pc = "done"]]
  /\ UNCHANGED <<maxFileSize, env, inits, initThrew, tmpFiles, log>>

\* handleValidationErrors(res, next, errors), once the validator's promise
\* has resolved.
handleValidationErrors(r) ==
  /\ req[r].pc = "awaitErrors"
  /\ IF req[r].errors # <<>>
     THEN req' = [req EXCEPT ![r] = [@ EXCEPT !.response = Append(@, Problem(req[r].errors)),
                                              !.pc = "done"]]
     ELSE req' = [req EXCEPT ![r] = [@ EXCEPT !.nextCalls = @ + 1, !.pc = "done"]]
  /\ UNCHANGED <<maxFileSize, env, inits, initThrew, tmpFiles, log>>

\* ------------------------------------------------------------- inputs

\* Content of n characters: "4141..." reads as base64, as hex and as binary.
ContentOf(n) == [i \in 1..n |-> IF i % 2 = 1 THEN "4" ELSE "1"]

base64 == <<"b", "a", "s", "e", "6", "4">>
hex == <<"h", "e", "x">>
binary == <<"b", "i", "n", "a", "r", "y">>
utf8 == <<"u", "t", "f", "8">>

Contents == {Undefined, Str(<<" ">>)} \cup {Str(ContentOf(n)) : n \in 0..MaxContentLen}
EncodingTypes == {Undefined, Str(<<>>), Str(base64), Str(hex), Str(utf8)}
FileTypes ==
  {Undefined, Str(<<>>), Str(docx), Str(<<"D", "O", "C", "X">>), Str(html), Str(<<"x", "y", "z">>)}

Template(c, e, f) == [t |-> "object", content |-> c, encodingType |-> e, fileType |-> f]

Templates ==
  {Undefined, Str(<<"x">>)} \cup
  {Template(c, e, f) : c \in Contents, e \in EncodingTypes, f \in FileTypes}

Datas == {Undefined, Arr(0), PlainObject}
Options ==
  {Undefined, Str(<<"x">>), PlainObject,
   [t |-> "object", convertTo |-> Str(<<"P", "D", "F">>)],
   [t |-> "object", convertTo |-> Str(<<"X", "L", "S", "X">>)],
   [t |-> "object", convertTo |-> Str(odt)],
   [t |-> "object", reportName |-> Num(5)]}
ValidOptions ==
  {Undefined,
   [t |-> "object", convertTo |-> Str(<<"P", "D", "F">>)],
   [t |-> "object", convertTo |-> Str(<<"X", "L", "S", "X">>)]}
Formatters == {Undefined, Str(<<"{", "}">>), Str(<<"{">>)}

Body(d, o, f, tp) == [data |-> d, options |-> o, formatters |-> f, template |-> tp]

ValidTemplate == Template(Str(ContentOf(MaxContentLen)), Str(base64), Str(docx))

\* Every base payload with a few templates, and every template with a
\* payload whose data and formatters are in order.
Bodies ==
  {Body(d, o, f, tp) : d \in Datas, o \in Options, f \in Formatters,
                       tp \in {Undefined, ValidTemplate}}
  \cup {Body(PlainObject, o, Undefined, tp) : o \in ValidOptions, tp \in Templates}

\* The bodies of the requests that run side by side.
FewBodies ==
  {Body(Undefined, Undefined, Undefined, ValidTemplate),
   Body(PlainObject, Undefined, Undefined, ValidTemplate)}

\* The init calls that arrive while requests are in flight.
LateInitOptions ==
  {[t |-> "object", maxFileSize |-> Str(<<"2">>)],
   [t |-> "object", maxFileSize |-> Str(<<"a", "b", "c">>)]}

InitOptions ==
  {Undefined,
   [t |-> "object", maxFileSize |-> Str(<<"2">>)],
   [t |-> "object", maxFileSize |-> Str(<<"a", "b", "c">>)],
   [t |-> "object", maxFileSize |-> Num(0)] @@ ("max-file-size" :> Str(<<"1", "k", "b">>)),
   [t |-> "object", maxFileSize |-> Num(3)]}

Limits == {Undefined, Null, Num(0), Num(2), Str(<<"2">>), Str(<<"1", "K", "B">>), Str(<<"a", "b", "c">>)}

\* ----------------------------------------------------- specifications

\* One request over every body, with init called at startup.
Next ==
  \/ \E o \in InitOptions : req[1].pc = "idle" /\ init(o)
  \/ \E b \in Bodies : validateCarbone(1, b)
  \/ \E b \in Bodies : validateTemplate(1, b)
  \/ templateResume(1)
  \/ \E w, s \in BOOLEAN : sizeFinish(1, w, s)
  \/ templateFinish(1)
  \/ handleValidationErrors(1)

Spec == Init /\ [][Next]_vars

\* Requests side by side, each suspended where the code awaits, and init
\* called at any moment.  Requests are interchangeable, so they arrive in
\* the order of their numbers.
Arrives(r) == \A p \in Reqs : p < r => req[p].pc # "idle"

InitConc == Init /\ env = Undefined

NextConc ==
  \/ \E o \in LateInitOptions : init(o)
  \/ \E r \in Reqs, b \in FewBodies : Arrives(r) /\ validateCarbone(r, b)
  \/ \E r \in Reqs, b \in FewBodies : Arrives(r) /\ validateTemplate(r, b)
  \/ \E r \in Reqs : templateResume(r)
  \/ \E r \in Reqs : \E w, s \in BOOLEAN : sizeFinish(r, w, s)
  \/ \E r \in Reqs : templateFinish(r)
  \/ \E r \in Reqs : handleValidationErrors(r)

SpecConc == InitConc /\ [][NextConc]_vars

\* Direct calls of the size check, over every content, encoding and limit.
NextSize ==
  \/ \E c \in Contents, e \in EncodingTypes \cup {Str(binary)}, l \in Limits : size(1, c, e, l)
  \/ \E w, s \in BOOLEAN : sizeFinish(1, w, s)

SpecSize == Init /\ [][NextSize]_vars

\* -------------------------------------------------------------- claims

Handled(r) == req[r].pc = "done" /\ req[r].kind \in {"carbone", "template"}
TemplateDone(r) == req[r].pc = "done" /\ req[r].kind = "template"

Messages(errors) == {errors[i].message : i \in 1..Len(errors)}
Count(errors, m) == Cardinality({i \in 1..Len(errors) : errors[i].message = m})

\* C1: a handled request with an empty error list has called next() once
\* and sent nothing; one with errors has sent exactly one response, status
\* 422, detail "Validation failed", with the whole list, and never called
\* next(); no request has both a response and a next() call.
C1_AdapterEitherOr ==
  \A r \in Reqs :
    /\ Len(req[r].response) + req[r].nextCalls <= 1
    /\ req[r].pc # "done" => req[r].response = <<>> /\ req[r].nextCalls = 0
    /\ Handled(r) /\ req[r].errors = <<>> =>
         req[r].nextCalls = 1 /\ req[r].response = <<>>
    /\ Handled(r) /\ req[r].errors # <<>> =>
         /\ req[r].nextCalls = 0
         /\ req[r].response =
              <<[status |-> 422, detail |-> "Validation failed", errors |-> req[r].errors]>>

C1_Witness ==
  /\ Handled(1)
  /\ req[1].kind = "template"
  /\ Len(req[1].errors) >= 2
  /\ Len(req[1].response) = 1

\* C2: once init has returned normally the stored limit is a byte count, so
\* no validateTemplate request is the first to meet an unparsed limit as a
\* size-limit violation.
C2_ConfigFaultAtInit ==
  \A r \in Reqs :
    ~(/\ inits > 0
      /\ ~initThrew
      /\ TemplateDone(r)
      /\ req[r].limit.t # "number"
      /\ TooLarge \in Messages(req[r].errors))

\* C3: the temp files that exist are exactly those of the size checks
\* waiting for their write; a size check that has returned, by any path,
\* holds none, so none is left once the checks have completed.
C3_TmpReleased ==
  /\ tmpFiles = {req[r].tmpFile : r \in {p \in Reqs : req[p].pc = "awaitWrite"}}
  /\ \A r \in Reqs : req[r].pc # "awaitWrite" => req[r].tmpFile = Undefined
  /\ (\A r \in Reqs : req[r].pc \in {"idle", "done"}) => tmpFiles = {}

C3_Witness ==
  /\ \A r \in {1, 2} : req[r].pc = "done" /\ req[r].creates = 1
  /\ req[1].io = "write"
  /\ req[2].io = "none"
  /\ tmpFiles = {}

\* The encodingType rule as the specification words it: a required string
\* out of base64, binary and hex.
RequiredEncoding(v) == isNonEmptyString(v) /\ v.s \in {base64, binary, hex}

PositiveLimit(v) == bytesParse(v).t = "number" /\ bytesParse(v).n >= 1

\* C4: a size check whose content is no non-empty string, whose encoding is
\* no string out of base64, binary and hex (absent and empty included), or
\* whose limit parses to no positive byte count answers false and creates
\* no temp file.
C4_NoIoOnBadInput ==
  \A r \in Reqs :
    (/\ req[r].kind = "size"
     /\ ~(/\ content(req[r].args[1])
          /\ RequiredEncoding(req[r].args[2])
          /\ PositiveLimit(req[r].args[3])))
    => req[r].creates = 0 /\ req[r].pc = "done" /\ ~req[r].validSize

\* The output type of a body, and the verdict of the table on it.
OutputOf(b) ==
  IF Truthy(b.options) /\ Truthy(Get(b.options, "convertTo"))
  THEN Get(b.options, "convertTo") ELSE Str(pdf)

ConversionError(b) ==
  [values |-> <<Get(b.template, "fileType"), OutputOf(b)>>, message |-> UnsupportedConversion]

\* The required fields of an upload that do not pass their validator.
InvalidFields(b) ==
  {f \in {"data"} : ~data(b.data)}
  \cup {f \in {"template"} : ~template(b.template)}
  \cup {f \in {"content"} : template(b.template) /\ ~content(Get(b.template, "content"))}
  \cup {f \in {"encodingType"} :
          template(b.template) /\ ~RequiredEncoding(Get(b.template, "encodingType"))}
  \cup {f \in {"fileType"} : template(b.template) /\ ~fileType(Get(b.template, "fileType"))}

\* The optional fields of b pass their validators.
OptionalValid(b) ==
  /\ options(b.options)
  /\ convertTo(Get(b.options, "convertTo"))
  /\ reportName(Get(b.options, "reportName"))
  /\ formatters(b.formatters)
  /\ Truthy(b.formatters) => telejsonParses(b.formatters.s)

\* b is a valid upload in which the one field f has been made invalid: the
\* other fields pass, and so does the conversion where it is not about f.
FlippedOnly(b, f) ==
  /\ InvalidFields(b) = {f}
  /\ OptionalValid(b)
  /\ f \in {"data", "content", "encodingType"} =>
       fileConversion(Get(b.template, "fileType"), OutputOf(b))

\* The violations that name the field f.
Corresponding(f) ==
  CASE f = "data" -> {InvalidData}
    [] f = "template" -> {InvalidTemplate}
    [] f = "content" -> {InvalidContent, MandatoryMissing}
    [] f = "encodingType" -> {InvalidEncodingType, MandatoryMissing}
    [] f = "fileType" -> {InvalidFileType, MandatoryMissing}

Fields == {"data", "template", "content", "encodingType", "fileType"}

\* C5 as stated: a request that passes every validator has no violation, and
\* a valid request with one required field made invalid has exactly one,
\* the one of that field.
C5_IsolationAsStated ==
  \A r \in Reqs : TemplateDone(r) =>
    LET b == req[r].body
    IN /\ (/\ InvalidFields(b) = {}
           /\ OptionalValid(b)
           /\ fileConversion(Get(b.template, "fileType"), OutputOf(b))
           /\ req[r].validSize) => req[r].errors = <<>>
       /\ \A f \in Fields : FlippedOnly(b, f) =>
            /\ Len(req[r].errors) = 1
            /\ req[r].errors[1].message \in Corresponding(f)

\* A fileType that is a non-blank string missing from the supported-type table.
UnsupportedFileType(b) ==
  /\ isNonEmptyString(Get(b.template, "fileType"))
  /\ ~fileType(Get(b.template, "fileType"))

\* C5, amended: as stated, except that a fileType changed to a non-blank
\* string outside the supported-type table gives two violations, the one of
\* template.fileType and then the conversion violation for [fileType,
\* output type]; a sub-field made absent, empty or blank gives the
\* mandatory-fields violation.
C5_Isolation ==
  \A r \in Reqs : TemplateDone(r) =>
    LET b == req[r].body
    IN /\ (/\ InvalidFields(b) = {}
           /\ OptionalValid(b)
           /\ fileConversion(Get(b.template, "fileType"), OutputOf(b))
           /\ req[r].validSize) => req[r].errors = <<>>
       /\ \A f \in Fields : FlippedOnly(b, f) =>
            IF f = "fileType" /\ UnsupportedFileType(b)
            THEN req[r].errors =
                   <<Err(Get(b.template, "fileType"), InvalidFileType), ConversionError(b)>>
            ELSE /\ Len(req[r].errors) = 1
                 /\ req[r].errors[1].message \in Corresponding(f)
                 /\ (f \in {"content", "encodingType", "fileType"}
                     /\ ~isNonEmptyString(Get(b.template, f)))
                    => req[r].errors[1].message = MandatoryMissing

C5_Witness ==
  /\ TemplateDone(1)
  /\ FlippedOnly(req[1].body, "fileType")
  /\ UnsupportedFileType(req[1].body)
  /\ Len(req[1].errors) = 2

\* {data: {a: 1}, template: {content: "", encodingType: "base64", fileType: "docx"}}
EmptyContentBody ==
  Body(PlainObject, Undefined, Undefined, Template(Str(<<>>), Str(base64), Str(docx)))

\* C6 as stated: the empty-content upload ends with the template.content
\* violation alone, the size check skipped.
C6_EmptyContentAsStated ==
  \A r \in Reqs : TemplateDone(r) /\ req[r].body = EmptyContentBody =>
    /\ req[r].errors = <<Err(Str(<<>>), InvalidContent)>>
    /\ req[r].args = <<>>
    /\ req[r].creates = 0

\* C6, amended: the empty-content upload ends with the mandatory-fields
\* violation alone; the size check is not called, no temp file is made and
\* there is no size-limit violation.
C6_EmptyContent ==
  \A r \in Reqs : TemplateDone(r) /\ req[r].body = EmptyContentBody =>
    /\ req[r].errors = <<[message |-> MandatoryMissing]>>
    /\ req[r].args = <<>>
    /\ req[r].creates = 0
    /\ req[r].response = <<Problem(<<[message |-> MandatoryMissing]>>)>>

C6_Witness == TemplateDone(1) /\ req[1].body = EmptyContentBody

\* C7: after an I/O fault in the size check no exception has left the
\* handler, size has answered false after a single attempt, and the error
\* list holds the size-limit violation once, built from the limit alone, and
\* after it only a conversion violation; the request ends with the one 422
\* response.
C7_IoFaultIsViolation ==
  \A r \in Reqs : req[r].kind = "template" /\ req[r].io # "none" =>
    /\ ~req[r].threw
    /\ ~req[r].validSize
    /\ req[r].creates = 1
    /\ req[r].pc \in {"awaitSize", "awaitErrors", "done"}
    /\ req[r].pc \in {"awaitErrors", "done"} =>
         /\ req[r].errors[1] = sizeError(req[r].limit)
         /\ Count(req[r].errors, TooLarge) = 1
         /\ \A i \in 1..Len(req[r].errors) :
              /\ "e" \notin DOMAIN req[r].errors[i]
              /\ req[r].errors[i].message \in {TooLarge, UnsupportedConversion}
    /\ req[r].pc = "done" =>
         req[r].response = <<Problem(req[r].errors)>> /\ req[r].nextCalls = 0

C7_Witness ==
  /\ TemplateDone(1)
  /\ req[1].io = "stat"
  /\ logLine(1, "stat") \in log
  /\ Len(req[1].response) = 1

\* C8 as stated: once the base check is empty, the conversion violation for
\* [fileType, output type] is in the result exactly when the table rejects
\* the pair, whatever the template-level checks found.
C8_ConversionAsStated ==
  \A r \in Reqs : TemplateDone(r) /\ carbone(req[r].body) = <<>> =>
    LET b == req[r].body
    IN (\E i \in 1..Len(req[r].errors) : req[r].errors[i] = ConversionError(b))
       <=> ~fileConversion(Get(b.template, "fileType"), OutputOf(b))

\* C8, amended: once the base check is empty and the template is an object
\* with its three mandatory fields, the conversion check is the last step
\* whatever fileType, content, encodingType and size gave: the violation
\* for [fileType, output type] ends the result exactly when the table
\* rejects the pair.  When the template is malformed or a mandatory field
\* is missing the check is not run and no conversion violation is reported.
C8_Conversion ==
  \A r \in Reqs : TemplateDone(r) /\ carbone(req[r].body) = <<>> =>
    LET b == req[r].body
        e == req[r].errors
    IN IF template(b.template) /\ mandatory(b.template)
       THEN /\ (e # <<>> /\ e[Len(e)] = ConversionError(b))
               <=> ~fileConversion(Get(b.template, "fileType"), OutputOf(b))
            /\ \A i \in 1..Len(e) : e[i].message = UnsupportedConversion => i = Len(e)
       ELSE UnsupportedConversion \notin Messages(e)

C8_Witness ==
  /\ TemplateDone(1)
  /\ Get(req[1].body.template, "fileType") = Str(html)
  /\ req[1].body.options = Undefined
  /\ req[1].errors = <<sizeError(req[1].limit), ConversionError(req[1].body)>>

\* C9: when the base check finds something, the result is its list and
\* nothing else, and the size check is never called; when it finds nothing,
\* a template that is no object ends the validation with that one violation.
C9_BaseGate ==
  \A r \in Reqs : TemplateDone(r) =>
    LET b == req[r].body
    IN /\ carbone(b) # <<>> =>
            req[r].errors = carbone(b) /\ req[r].args = <<>> /\ req[r].creates = 0
       /\ carbone(b) = <<>> /\ ~template(b.template) =>
            /\ req[r].errors = <<Err(b.template, InvalidTemplate)>>
            /\ req[r].args = <<>>
            /\ req[r].creates = 0
       /\ req[r].args # <<>> => carbone(b) = <<>> /\ template(b.template)

C9_Witness ==
  /\ TemplateDone(1)
  /\ Len(carbone(req[1].body)) = 2
  /\ req[1].body.template = ValidTemplate

\* The result of modelValidation.template(b, limit) run by itself, the
\* file system answering `io` to the size check.
Alone(b, limit, io) ==
  LET tc == templateChecks(b, carbone(b))
      c == Get(b.template, "content")
      enc == Get(b.template, "encodingType")
      valid == /\ sizePreconditions(c, enc, limit)
               /\ io = "none"
               /\ bufferLength(c, enc) <= bytesParse(limit).n
  IN IF tc.validateSize THEN templateAfterSize(b, <<>>, valid, limit) ELSE tc.errors

\* C10: without a call of init the limit keeps its initial value; a
\* validateTemplate request works with the limit in force when it started,
\* in its size check and in its message, and ends as it would have alone
\* with that limit, whatever the other requests and init did meanwhile.
C10_NoInterference ==
  /\ inits = 0 => maxFileSize = bytesParse(Default)
  /\ \A r \in Reqs : req[r].kind = "template" =>
       /\ req[r].limit = req[r].started
       /\ req[r].args # <<>> => req[r].args[3] = req[r].started
       /\ req[r].pc \in {"awaitErrors", "done"} =>
            /\ req[r].errors = Alone(req[r].body, req[r].started, req[r].io)
            /\ \A i \in 1..Len(req[r].errors) :
                 req[r].errors[i].message = TooLarge =>
                   req[r].errors[i].limit = req[r].started
       /\ req[r].pc = "done" =>
            IF req[r].errors = <<>>
            THEN req[r].nextCalls = 1 /\ req[r].response = <<>>
            ELSE req[r].nextCalls = 0 /\ req[r].response = <<Problem(req[r].errors)>>

C10_Witness ==
  /\ TemplateDone(1)
  /\ TemplateDone(2)
  /\ req[1].started # maxFileSize
  /\ req[2].started = maxFileSize
  /\ req[1].creates = 1
  /\ req[1].errors = <<>>
  /\ TooLarge \in Messages(req[2].errors)

====
